---------------------------- MODULE Spec2Model ----------------------------
(***************************************************************************)
(* Model of pakr-fsm (src/src/lib.rs): the FSM trait and the Reactor that  *)
(* runs one FSM on a worker thread fed by an unbounded mpsc channel.       *)
(*                                                                         *)
(* The worker thread of Reactor::new is modelled statement by statement    *)
(* (wpc is its position), the Reactor's operations (send, get_sender,      *)
(* join, drop) and the operations on cloned senders are the environment.   *)
(* Variables whose comment says "history" record calls that were made;     *)
(* the program does not read them.                                         *)
(***************************************************************************)
EXTENDS Naturals, Sequences, FiniteSets

\* ---------------------------------------------------------------- bounds
\* Number of calls of send (Reactor::send and Sender::send together).
MaxSends == 3
\* Number of senders obtained from Reactor::get_sender.
MaxClones == 1

\* ------------------------------------------------------ the FSM's types
\* Option::None, for Option<State> and Option<Response>.
None == "None"

\* FSM::Event (the documented MyEv).
Events == {"E1", "E2"}

\* FSM::State (the documented MyState).
States == {"S1", "S2"}

\* <MyState as Default>::default().
DefaultState == "S1"

\* The implementations of the trait FSM the Reactor is instantiated with:
\* MyFSM is the documented example; Looper never terminates; Counter keeps
\* private bookkeeping and terminates without a response; Faulty panics.
Machines == {"MyFSM", "Looper", "Counter", "Faulty"}

\* Counter terminates on its CounterLimit-th E1.
CounterLimit == 2

\* The machine instance before `let mut fsm = F::new()` has run.
NoMachine == [built |-> FALSE, calls |-> 0]

\* F::new().
New(F) == [built |-> TRUE, calls |-> 0]

\* What a call of trasnsit or respond yields: the returned pair, or a panic.
Outcome(new, resp) == [new |-> new, resp |-> resp, fault |-> FALSE]

Panic == [new |-> None, resp |-> None, fault |-> TRUE]

\* MyFSM::trasnsit with the arm (S2, E1) staying in S2.
MyFSMTransitSticky(old_state, ev) ==
    CASE old_state = "S1" /\ ev = "E1" -> Outcome(None, "Quitting")
      [] old_state = "S1" /\ ev = "E2" -> Outcome("S2", None)
      [] old_state = "S2" /\ ev = "E1" -> Outcome("S2", "S2@E1->S1")
      [] old_state = "S2" /\ ev = "E2" -> Outcome("S2", "S2@E2->S2")

\* MyFSM::trasnsit of the documented example.
MyFSMTransit(old_state, ev) ==
    CASE old_state = "S1" /\ ev = "E1" -> Outcome(None, "Quitting")
      [] old_state = "S1" /\ ev = "E2" -> Outcome("S2", None)
      [] old_state = "S2" /\ ev = "E1" -> Outcome("S1", "S2@E1->S1")
      [] old_state = "S2" /\ ev = "E2" -> Outcome("S2", "S2@E2->S2")

\* A machine whose transitions never terminate and never panic.
LooperTransit(old_state, ev) ==
    IF ev = "E1"
    THEN Outcome(IF old_state = "S1" THEN "S2" ELSE "S1", "tick")
    ELSE Outcome(old_state, None)

\* A machine that counts its E1 events in its private bookkeeping and
\* terminates, with no response, on the CounterLimit-th.
CounterTransit(fsm, old_state, ev) ==
    IF ev = "E2" THEN Outcome(old_state, None)
    ELSE IF fsm.calls + 1 >= CounterLimit THEN Outcome(None, None)
    ELSE Outcome("S2", "early")

\* A machine with defects: trasnsit panics on (S1, E2), and respond panics
\* on the response "boom".
FaultyTransit(old_state, ev) ==
    CASE old_state = "S1" /\ ev = "E1" -> Outcome("S2", "ok")
      [] old_state = "S1" /\ ev = "E2" -> Panic
      [] old_state = "S2" /\ ev = "E1" -> Outcome(None, "boom")
      [] old_state = "S2" /\ ev = "E2" -> Outcome("S1", "boom")

\* fsm.trasnsit(&state, &ev): the returned (Option<State>, Option<Response>).
trasnsit(F, fsm, old_state, ev) ==
    CASE F = "MyFSM"   -> MyFSMTransit(old_state, ev)
      [] F = "Looper"  -> LooperTransit(old_state, ev)
      [] F = "Counter" -> CounterTransit(fsm, old_state, ev)
      [] F = "Faulty"  -> FaultyTransit(old_state, ev)

\* The machine's private bookkeeping after trasnsit (&mut self).
trasnsitSelf(F, fsm, ev) ==
    IF F = "Counter" /\ ev = "E1" THEN [fsm EXCEPT !.calls = fsm.calls + 1]
    ELSE fsm

\* fsm.respond(&state, &new_state, &response) panics?
respondFaults(F, resp) == F = "Faulty" /\ resp = "boom"

\* ------------------------------------------------------------ the state
VARIABLES
    F,            \* the type parameter of Reactor<F>
    wpc,          \* the worker thread's position
    fsm,          \* the worker's local `fsm`
    state,        \* the worker's local `state`
    cur,          \* the worker's local `ev`, and (new_state, response)
    queue,        \* the channel's queue
    accepted,     \* history: the events the channel took, in its order
    rxAlive,      \* the Receiver has not been dropped
    senders,      \* the Senders: 0 is Reactor.chan, 1.. are get_sender's
    nsent,        \* history: number of send calls made on each sender
    sendResult,   \* what the last send call returned
    threadResult, \* the result the worker thread ended with
    joinpc,       \* the Reactor: idle, join pending, join returned, dropped
    joinResult,   \* what Reactor::join returned
    transitLog,   \* history: the trasnsit calls, in order
    notifyLog     \* history: the respond calls, in order

vars == <<F, wpc, fsm, state, cur, queue, accepted, rxAlive, senders, nsent, sendResult,
          threadResult, joinpc, joinResult, transitLog, notifyLog>>

SenderIds == 0 .. MaxClones

NoEvent == [ev |-> None, src |-> 0, seq |-> 0]

NoCur == [item |-> NoEvent, new |-> None, resp |-> None]

RECURSIVE SumSent(_, _)
SumSent(f, S) ==
    IF S = {} THEN 0
    ELSE LET p == CHOOSE x \in S : TRUE IN f[p] + SumSent(f, S \ {p})

\* Number of send calls made so far.
TotalSent == SumSent(nsent, SenderIds)

\* Some Sender of the channel is still alive.
AnySender(s) == \E p \in SenderIds : s[p] = "alive"

Init ==
    /\ F \in Machines
    /\ wpc = "spawned"
    /\ fsm = NoMachine
    /\ state = "unset"
    /\ cur = NoCur
    /\ queue = <<>>
    /\ accepted = <<>>
    /\ rxAlive = TRUE
    /\ senders = [p \in SenderIds |-> IF p = 0 THEN "alive" ELSE "none"]
    /\ nsent = [p \in SenderIds |-> 0]
    /\ sendResult = <<"NoCall">>
    /\ threadResult = <<"Running">>
    /\ joinpc = "idle"
    /\ joinResult = <<"NotReturned">>
    /\ transitLog = <<>>
    /\ notifyLog = <<>>

\* ------------------------------------------------------ the worker thread
\* The thread ends: its result is stored for join and its locals, the
\* Receiver among them, are dropped (which discards what is still queued).
ThreadEnds(result) ==
    /\ threadResult' = result
    /\ rxAlive' = FALSE
    /\ queue' = <<>>

\* A worker that empties the channel when it starts.
WorkerNewFlush ==
    /\ wpc = "spawned"
    /\ fsm' = New(F)
    /\ wpc' = "constructed"
    /\ queue' = <<>>
    /\ UNCHANGED <<accepted, F, state, cur, rxAlive, senders, nsent, sendResult,
                   threadResult, joinpc, joinResult, transitLog, notifyLog>>

\* let mut fsm = F::new();
WorkerNew ==
    /\ wpc = "spawned"
    /\ fsm' = New(F)
    /\ wpc' = "constructed"
    /\ UNCHANGED <<accepted, F, state, cur, queue, rxAlive, senders, nsent, sendResult,
                   threadResult, joinpc, joinResult, transitLog, notifyLog>>

\* let mut state = F::State::default();
WorkerDefault ==
    /\ wpc = "constructed"
    /\ state' = DefaultState
    /\ wpc' = "recv"
    /\ UNCHANGED <<accepted, F, fsm, cur, queue, rxAlive, senders, nsent, sendResult,
                   threadResult, joinpc, joinResult, transitLog, notifyLog>>

\* A receive that takes the newest queued event: what is processed then
\* depends on how far the senders are ahead of the worker.
WorkerRecvNewest ==
    /\ wpc = "recv"
    /\ queue # <<>>
    /\ cur' = [NoCur EXCEPT !.item = queue[Len(queue)]]
    /\ queue' = SubSeq(queue, 1, Len(queue) - 1)
    /\ wpc' = "transit"
    /\ UNCHANGED <<accepted, F, fsm, state, rxAlive, senders, nsent, sendResult,
                   threadResult, joinpc, joinResult, transitLog, notifyLog>>

\* while let Ok(ev) = rx.recv(): an event is queued.
WorkerRecv ==
    /\ wpc = "recv"
    /\ queue # <<>>
    /\ cur' = [NoCur EXCEPT !.item = Head(queue)]
    /\ queue' = Tail(queue)
    /\ wpc' = "transit"
    /\ UNCHANGED <<accepted, F, fsm, state, rxAlive, senders, nsent, sendResult,
                   threadResult, joinpc, joinResult, transitLog, notifyLog>>

\* A loop that ends when the Reactor's own Sender is dropped, whatever
\* senders were cloned from it.
WorkerClosedOnReactorDrop ==
    /\ wpc = "recv"
    /\ queue = <<>>
    /\ senders[0] # "alive"
    /\ wpc' = "done"
    /\ ThreadEnds(<<"Ok", None>>)
    /\ UNCHANGED <<accepted, F, fsm, state, cur, senders, nsent, sendResult,
                   joinpc, joinResult, transitLog, notifyLog>>

\* A loop that ends as soon as every Sender is dropped, events still queued.
WorkerClosedDiscards ==
    /\ wpc = "recv"
    /\ ~AnySender(senders)
    /\ wpc' = "done"
    /\ ThreadEnds(<<"Ok", None>>)
    /\ UNCHANGED <<accepted, F, fsm, state, cur, senders, nsent, sendResult,
                   joinpc, joinResult, transitLog, notifyLog>>

\* rx.try_recv() in place of rx.recv(): the loop ends on an empty queue.
WorkerClosedEager ==
    /\ wpc = "recv"
    /\ queue = <<>>
    /\ wpc' = "done"
    /\ ThreadEnds(<<"Ok", None>>)
    /\ UNCHANGED <<accepted, F, fsm, state, cur, senders, nsent, sendResult,
                   joinpc, joinResult, transitLog, notifyLog>>

\* rx.recv() is Err: the queue is empty and every Sender is dropped;
\* the loop ends and the thread returns None.
WorkerClosed ==
    /\ wpc = "recv"
    /\ queue = <<>>
    /\ ~AnySender(senders)
    /\ wpc' = "done"
    /\ ThreadEnds(<<"Ok", None>>)
    /\ UNCHANGED <<accepted, F, fsm, state, cur, senders, nsent, sendResult,
                   joinpc, joinResult, transitLog, notifyLog>>

\* respond skipped when the transition terminates the machine.
AfterTransitSkipTerminal(out) ==
    IF out.fault THEN "panicked"
    ELSE IF out.resp # None /\ out.new # None THEN "respond"
    ELSE "match"

\* The position after trasnsit returned: respond is called only for Some.
AfterTransit(out) ==
    IF out.fault THEN "panicked"
    ELSE IF out.resp # None THEN "respond"
    ELSE "match"

\* let (new_state, response) = fsm.trasnsit(&state, &ev);
WorkerTransit ==
    /\ wpc = "transit"
    /\ LET out == trasnsit(F, fsm, state, cur.item.ev) IN
        /\ transitLog' = Append(transitLog,
               [item |-> cur.item, old |-> state, new |-> out.new,
                resp |-> out.resp, fault |-> out.fault])
        /\ fsm' = trasnsitSelf(F, fsm, cur.item.ev)
        /\ wpc' = AfterTransit(out)
        /\ IF out.fault
           THEN /\ ThreadEnds(<<"Panic">>)
                /\ cur' = cur
           ELSE /\ cur' = [cur EXCEPT !.new = out.new, !.resp = out.resp]
                /\ UNCHANGED <<queue, rxAlive, threadResult>>
    /\ UNCHANGED <<accepted, F, state, senders, nsent, sendResult, joinpc, joinResult,
                   notifyLog>>

\* if let Some(response) = &response { fsm.respond(&state, &new_state, &response); }
WorkerRespond ==
    /\ wpc = "respond"
    /\ notifyLog' = Append(notifyLog,
           [item |-> cur.item, old |-> state, new |-> cur.new,
            resp |-> cur.resp, fault |-> respondFaults(F, cur.resp)])
    /\ IF respondFaults(F, cur.resp)
       THEN /\ wpc' = "panicked"
            /\ ThreadEnds(<<"Panic">>)
       ELSE /\ wpc' = "match"
            /\ UNCHANGED <<queue, rxAlive, threadResult>>
    /\ UNCHANGED <<accepted, F, fsm, state, cur, senders, nsent, sendResult, joinpc,
                   joinResult, transitLog>>

\* The arm `None => return None`: the response is dropped.
ReturnedNothing(c) == <<"Ok", None>>

\* What the thread returns from the arm `None => return response`.
Returned(c) == <<"Ok", c.resp>>

\* The arm `None => {}`: the loop goes on after a terminating transition.
WorkerReturnContinues ==
    /\ wpc = "match"
    /\ cur.new = None
    /\ wpc' = "recv"
    /\ UNCHANGED <<accepted, F, fsm, state, cur, queue, rxAlive, senders, nsent,
                   sendResult, threadResult, joinpc, joinResult, transitLog,
                   notifyLog>>

\* match new_state { None => return response, ... }
WorkerReturn ==
    /\ wpc = "match"
    /\ cur.new = None
    /\ wpc' = "done"
    /\ ThreadEnds(Returned(cur))
    /\ UNCHANGED <<accepted, F, fsm, state, cur, senders, nsent, sendResult, joinpc,
                   joinResult, transitLog, notifyLog>>

\* The arm `Some(new_state) => {}`: the new state is not committed.
KeepState(s, c) == s

\* The worker's `state` after the arm `Some(new_state) => state = new_state`.
NextState(s, c) == c.new

\* match new_state { ..., Some(new_state) => state = new_state }
WorkerCommit ==
    /\ wpc = "match"
    /\ cur.new # None
    /\ state' = NextState(state, cur)
    /\ wpc' = "recv"
    /\ UNCHANGED <<accepted, F, fsm, cur, queue, rxAlive, senders, nsent, sendResult,
                   threadResult, joinpc, joinResult, transitLog, notifyLog>>

Worker ==
    \/ WorkerNew
    \/ WorkerDefault
    \/ WorkerRecv
    \/ WorkerClosed
    \/ WorkerTransit
    \/ WorkerRespond
    \/ WorkerReturn
    \/ WorkerCommit

\* ------------------------------------------------------------ the callers
\* mpsc::sync_channel(2): a send waits while two events are queued.
HasRoomBounded(q) == Len(q) < 2

\* mpsc::channel() is unbounded: a send never waits for room.
HasRoom(q) == TRUE

\* A queue that keeps one event only: a send to a non-empty queue is lost.
EnqueueLossy(q, item) == IF q = <<>> THEN <<item>> ELSE q

\* A queue that hands out the newest event first.
EnqueueFront(q, item) == <<item>> \o q

\* The queue after a successful send.
Enqueue(q, item) == Append(q, item)

\* The event `ev` as sender p's next send call passes it: src and seq are
\* history that tells the calls apart.
Item(p, e) == [ev |-> e, src |-> p, seq |-> nsent[p] + 1]

\* An error that does not carry the event.
SendErrorEmpty(item) == <<"Err", NoEvent>>

\* Err(SendError(ev)): the error hands the event back.
SendError(item) == <<"Err", item>>

\* Sender::send(ev) on sender p: Err(SendError(ev)) once the Receiver is
\* dropped, otherwise the event is queued and Ok(()) returned.
ChanSend(p, e) ==
    /\ senders[p] = "alive"
    /\ HasRoom(queue)
    /\ nsent' = [nsent EXCEPT ![p] = nsent[p] + 1]
    /\ IF rxAlive
       THEN /\ queue' = Enqueue(queue, Item(p, e))
            /\ accepted' = Append(accepted, Item(p, e))
            /\ sendResult' = <<"Ok">>
       ELSE /\ queue' = queue
            /\ accepted' = accepted
            /\ sendResult' = SendError(Item(p, e))
    /\ UNCHANGED <<F, wpc, fsm, state, cur, rxAlive, senders, threadResult,
                   joinpc, joinResult, transitLog, notifyLog>>

\* Reactor::send(&self, ev)
Send(e) ==
    /\ joinpc = "idle"
    /\ TotalSent < MaxSends
    /\ ChanSend(0, e)

\* send on a sender obtained from get_sender
CloneSend(p, e) ==
    /\ p # 0
    /\ TotalSent < MaxSends
    /\ ChanSend(p, e)

\* Reactor::get_sender(&self): self.chan.clone()
GetSender ==
    /\ joinpc = "idle"
    /\ \E p \in SenderIds \ {0} :
        /\ senders[p] = "none"
        /\ \A q \in 1 .. (p - 1) : senders[q] # "none"
        /\ senders' = [senders EXCEPT ![p] = "alive"]
    /\ UNCHANGED <<accepted, F, wpc, fsm, state, cur, queue, rxAlive, nsent, sendResult,
                   threadResult, joinpc, joinResult, transitLog, notifyLog>>

\* A sender obtained from get_sender is dropped.
DropSender(p) ==
    /\ p # 0
    /\ senders[p] = "alive"
    /\ senders' = [senders EXCEPT ![p] = "dropped"]
    /\ UNCHANGED <<accepted, F, wpc, fsm, state, cur, queue, rxAlive, nsent, sendResult,
                   threadResult, joinpc, joinResult, transitLog, notifyLog>>

\* A Reactor that owns the machine: dropping it tears the machine down.
DropReactorKills ==
    /\ joinpc = "idle"
    /\ joinpc' = "dropped"
    /\ senders' = [senders EXCEPT ![0] = "dropped"]
    /\ fsm' = NoMachine
    /\ UNCHANGED <<accepted, F, wpc, state, cur, queue, rxAlive, nsent,
                   sendResult, threadResult, joinResult, transitLog, notifyLog>>

\* The Reactor is dropped without join: its Sender is dropped, the thread
\* is detached.
DropReactor ==
    /\ joinpc = "idle"
    /\ joinpc' = "dropped"
    /\ senders' = [senders EXCEPT ![0] = "dropped"]
    /\ UNCHANGED <<accepted, F, wpc, fsm, state, cur, queue, rxAlive, nsent, sendResult,
                   threadResult, joinResult, transitLog, notifyLog>>

\* A join that drops self.chan before it waits for the thread.
JoinCallDropsSender ==
    /\ joinpc = "idle"
    /\ joinpc' = "pending"
    /\ senders' = [senders EXCEPT ![0] = "dropped"]
    /\ UNCHANGED <<accepted, F, wpc, fsm, state, cur, queue, rxAlive, nsent,
                   sendResult, threadResult, joinResult, transitLog, notifyLog>>

\* Reactor::join(self) is called: self.reactor.join() starts to wait;
\* self.chan lives until join's body ends.
JoinCall ==
    /\ joinpc = "idle"
    /\ joinpc' = "pending"
    /\ UNCHANGED <<accepted, F, wpc, fsm, state, cur, queue, rxAlive, senders, nsent,
                   sendResult, threadResult, joinResult, transitLog, notifyLog>>

\* join that hides a panic: self.reactor.join().unwrap_or(None).
JoinValueSwallowed(r) == IF r[1] = "Panic" THEN <<"Ok", None>> ELSE r

\* thread::JoinHandle::join: Ok(the thread's result), Err if it panicked.
JoinValue(r) == IF r[1] = "Panic" THEN <<"Err">> ELSE r

\* A join that does not wait for the thread to end.
JoinReturnEarly ==
    /\ joinpc = "pending"
    /\ joinpc' = "returned"
    /\ joinResult' = JoinValue(threadResult)
    /\ senders' = [senders EXCEPT ![0] = "dropped"]
    /\ UNCHANGED <<accepted, F, wpc, fsm, state, cur, queue, rxAlive, nsent,
                   sendResult, threadResult, transitLog, notifyLog>>

\* self.reactor.join() returns once the thread has ended; then self.chan
\* is dropped.
JoinReturn ==
    /\ joinpc = "pending"
    /\ threadResult # <<"Running">>
    /\ joinpc' = "returned"
    /\ joinResult' = JoinValue(threadResult)
    /\ senders' = [senders EXCEPT ![0] = "dropped"]
    /\ UNCHANGED <<accepted, F, wpc, fsm, state, cur, queue, rxAlive, nsent, sendResult,
                   threadResult, transitLog, notifyLog>>

Next ==
    \/ Worker
    \/ \E e \in Events : Send(e)
    \/ \E p \in SenderIds, e \in Events : CloneSend(p, e)
    \/ GetSender
    \/ \E p \in SenderIds : DropSender(p)
    \/ DropReactor
    \/ JoinCall
    \/ JoinReturn

Spec == Init /\ [][Next]_vars

\* The operating system schedules the worker thread and the joining thread.
FairSpec == Spec /\ WF_vars(Worker) /\ WF_vars(JoinReturn)

\* ------------------------------------------- the documented example's main
\* fsm.send(MyEv::E2)?; fsm.send(MyEv::E2)?; fsm.send(MyEv::E1)?; fsm.send(MyEv::E1)?;
DocScript == <<"E2", "E2", "E1", "E1">>

\* One `fsm.send(ev)?` of main, for an event of either kind; main makes
\* Len(DocScript) of them. `?` leaves main on an Err.
DocSend(e) ==
    /\ joinpc = "idle"
    /\ sendResult[1] # "Err"
    /\ nsent[0] < Len(DocScript)
    /\ ChanSend(0, e)

\* `?` on Err(SendError): main returns the error, which drops the Reactor.
DocBail ==
    /\ sendResult[1] = "Err"
    /\ DropReactor

\* let ans = fsm.join().unwrap();
DocJoin ==
    /\ sendResult[1] # "Err"
    /\ nsent[0] = Len(DocScript)
    /\ JoinCall

DocInit == Init /\ F = "MyFSM"

\* main never calls get_sender and drops the Reactor only after a failed
\* send, when the worker has ended: rx.recv() never returns Err here.
DocNext ==
    \/ \E e \in Events : DocSend(e)
    \/ DocBail
    \/ DocJoin
    \/ JoinReturn
    \/ WorkerNew
    \/ WorkerDefault
    \/ WorkerRecv
    \/ WorkerTransit
    \/ WorkerRespond
    \/ WorkerReturn
    \/ WorkerCommit

DocSpec == DocInit /\ [][DocNext]_vars

\* ---------------------------------------------------------- properties
\* A trasnsit call that returned next_state = None.
Terminating(t) == t.new = None /\ ~t.fault

\* Some trasnsit call has returned next_state = None.
Terminated == \E k \in 1 .. Len(transitLog) : Terminating(transitLog[k])

\* The worker thread has ended (returned or panicked).
WorkerExited == wpc \in {"done", "panicked"}

\* The respond calls made for an event.
NotifiesOf(item) == {j \in 1 .. Len(notifyLog) : notifyLog[j].item = item}

\* The events and the responses of the trasnsit calls, in order.
LogEvents == [i \in 1 .. Len(transitLog) |-> transitLog[i].item.ev]

LogResponses == [i \in 1 .. Len(transitLog) |-> transitLog[i].resp]

IsPrefix(a, b) == Len(a) <= Len(b) /\ \A i \in 1 .. Len(a) : a[i] = b[i]

\* C1: when the worker has processed a transition that returned
\* next_state = None (it left through the arm `None => return response`) and
\* join has returned, join's value is Ok(r) with r the response of that
\* transition, Some or None; no earlier transition's response is returned.
\* (A respond call that panics on that transition ends the thread before
\* the arm is reached; join then returns Err, the case of a worker fault.)
C1_JoinReturnsTerminalResponse ==
    (joinpc = "returned" /\ wpc = "done" /\ Terminated) =>
        \A k \in 1 .. Len(transitLog) :
            Terminating(transitLog[k]) => joinResult = <<"Ok", transitLog[k].resp>>

\* C1 witness: join has returned the terminating response after an earlier,
\* non-terminating transition produced a different response.
C1_Witness ==
    /\ joinpc = "returned"
    /\ wpc = "done"
    /\ Terminated
    /\ \E j \in 1 .. Len(notifyLog) :
        notifyLog[j].new # None /\ <<"Ok", notifyLog[j].resp>> # joinResult

\* No sender obtained from get_sender is alive.
NoCloneAlive == \A p \in SenderIds \ {0} : senders[p] # "alive"

\* C2: with a machine that never terminates, once the caller has dropped
\* every sender it holds and called join, join eventually returns Ok(None).
C2_JoinReturnsNoneOnClosedChannel ==
    (F = "Looper" /\ joinpc = "pending" /\ NoCloneAlive)
        ~> (joinpc = "returned" /\ joinResult = <<"Ok", None>>)

\* C3: the old_state of the k-th trasnsit call is the next_state the
\* (k-1)-th returned, and State::default() for k = 1; the respond call made
\* for an event gets the old_state its trasnsit call got.
C3_StateThreading ==
    /\ \A k \in 1 .. Len(transitLog) :
        transitLog[k].old =
            IF k = 1 THEN DefaultState ELSE transitLog[k - 1].new
    /\ \A j \in 1 .. Len(notifyLog) :
        \E k \in 1 .. Len(transitLog) :
            /\ transitLog[k].item = notifyLog[j].item
            /\ notifyLog[j].old = transitLog[k].old

\* C3 witness: a second event was processed from a state other than the
\* default one, and respond was called for it.
C3_Witness ==
    /\ Len(transitLog) >= 2
    /\ transitLog[2].old # DefaultState
    /\ NotifiesOf(transitLog[2].item) # {}

\* C4: a transition that returned next_state = None is the last trasnsit
\* call: the worker never receives again, and respond is called for no
\* event after it (only, at most, for the terminating transition itself).
C4_NothingAfterTermination ==
    \A k \in 1 .. Len(transitLog) :
        Terminating(transitLog[k]) =>
            /\ k = Len(transitLog)
            /\ wpc \in {"respond", "match", "done", "panicked"}
            /\ \A j \in 1 .. Len(notifyLog) :
                \E i \in 1 .. k : transitLog[i].item = notifyLog[j].item

\* C4 witness: the machine has terminated and the worker has exited while
\* more events were accepted by the channel than were processed.
C4_Witness ==
    /\ Terminated
    /\ wpc = "done"
    /\ sendResult = <<"Ok">>
    /\ TotalSent > Len(transitLog)

\* Number of trasnsit calls made for the k-th event sent on sender p.
TimesProcessed(p, k) ==
    Cardinality({i \in 1 .. Len(transitLog) :
                    transitLog[i].item.src = p /\ transitLog[i].item.seq = k})

\* Every event sent so far has been passed to trasnsit exactly once.
AllDelivered ==
    \A p \in SenderIds : \A k \in 1 .. nsent[p] : TimesProcessed(p, k) = 1

\* C5: with a machine that never terminates, no event is passed to
\* trasnsit twice, none that was not sent, and under fair scheduling of
\* the worker every event sent, on whichever sender, is eventually passed
\* to trasnsit.
C5_ExactlyOnceDelivery ==
    /\ [](F = "Looper" =>
            \A i \in 1 .. Len(transitLog) :
                /\ transitLog[i].item.seq \in 1 .. nsent[transitLog[i].item.src]
                /\ TimesProcessed(transitLog[i].item.src, transitLog[i].item.seq) = 1)
    /\ ((F = "Looper") ~> AllDelivered)

\* C5 witness: two producers, one on a sender cloned with get_sender and
\* one on the Reactor's own, have sent concurrently, one of them twice,
\* and every event has been processed.
C5_Witness ==
    /\ F = "Looper"
    /\ \E p \in SenderIds \ {0} : nsent[p] >= 2
    /\ nsent[0] >= 1
    /\ Len(transitLog) >= 2
    /\ transitLog[1].item.src # transitLog[2].item.src
    /\ AllDelivered

\* C6: two events sent on the same sender are processed in the order of
\* their send calls.
C6_PerProducerFifo ==
    \A i \in 1 .. Len(transitLog) : \A j \in 1 .. Len(transitLog) :
        (i < j /\ transitLog[i].item.src = transitLog[j].item.src)
            => transitLog[i].item.seq < transitLog[j].item.seq

\* C6 witness: two events of one sender were processed with an event of
\* another sender between them.
C6_Witness ==
    /\ Len(transitLog) >= 3
    /\ transitLog[1].item.src = transitLog[3].item.src
    /\ transitLog[2].item.src # transitLog[1].item.src

\* C7: a send made after the worker has exited, on the Reactor's sender or
\* a cloned one, returns Err carrying the event passed in, and queues
\* nothing; nothing is processed after the worker has exited.
C7_SendAfterExit ==
    /\ [](WorkerExited => ~rxAlive /\ queue = <<>>)
    /\ [][\A p \in SenderIds : \A e \in Events :
            (WorkerExited /\ ChanSend(p, e)) =>
                /\ sendResult' = <<"Err", [ev |-> e, src |-> p, seq |-> nsent[p] + 1]>>
                /\ queue' = queue
                /\ transitLog' = transitLog
                /\ notifyLog' = notifyLog]_vars

\* C7 witness: a send on a cloned sender has returned Err after the worker
\* exited.
C7_Witness ==
    /\ WorkerExited
    /\ sendResult[1] = "Err"
    /\ sendResult[2].src # 0

\* C8: a send on a live sender can always be made, whatever the queue
\* holds and wherever the worker is, it is one step, and it returns Ok and
\* queues the event whenever the worker has not exited.
C8_SendNeverBlocks ==
    /\ [](\A p \in SenderIds : \A e \in Events :
            senders[p] = "alive" => ENABLED ChanSend(p, e))
    /\ [][\A p \in SenderIds : \A e \in Events :
            (~WorkerExited /\ ChanSend(p, e)) =>
                /\ sendResult' = <<"Ok">>
                /\ queue' = Append(queue, [ev |-> e, src |-> p, seq |-> nsent[p] + 1])]_vars

\* C8 witness: a third send has returned Ok with two events queued and the
\* worker not yet started.
C8_Witness ==
    /\ wpc = "spawned"
    /\ Len(queue) >= 3
    /\ sendResult = <<"Ok">>

\* C9: respond is called for an event exactly when its trasnsit call
\* returned Some response, once, with that call's old_state, next_state
\* and response, and the call is made before the worker commits the new
\* state or exits, also when next_state is None.
C9_NotifyExactlyOnResponse ==
    /\ \A k \in 1 .. Len(transitLog) :
        LET t == transitLog[k]
            n == NotifiesOf(t.item)
        IN  /\ (t.fault \/ t.resp = None) => n = {}
            /\ (~t.fault /\ t.resp # None) =>
                /\ Cardinality(n) <= 1
                /\ n = {} => (k = Len(transitLog) /\ wpc = "respond")
                /\ \A j \in n :
                    /\ notifyLog[j].old = t.old
                    /\ notifyLog[j].new = t.new
                    /\ notifyLog[j].resp = t.resp
    /\ \A j \in 1 .. Len(notifyLog) :
        \E k \in 1 .. Len(transitLog) : transitLog[k].item = notifyLog[j].item

\* C9 witness: respond was called for a terminating transition and the
\* worker has returned.
C9_Witness ==
    /\ wpc = "done"
    /\ \E j \in 1 .. Len(notifyLog) : notifyLog[j].new = None

\* The responses the documentation gives for DocScript.
DocResponses == <<None, "S2@E2->S2", "S2@E1->S1", "Quitting">>

\* C10: with the documented machine, while the events processed are those
\* of E2, E2, E1, E1 in this order, the responses are None, "S2@E2->S2",
\* "S2@E1->S1", "Quitting" in this order, the fourth transition and no
\* earlier one terminates, and join returns Some("Quitting").
C10_DocumentedScenario ==
    IsPrefix(LogEvents, DocScript) =>
        /\ IsPrefix(LogResponses, DocResponses)
        /\ \A k \in 1 .. Len(transitLog) :
            Terminating(transitLog[k]) <=> k = Len(DocScript)
        /\ (joinpc = "returned" /\ LogEvents = DocScript)
            => joinResult = <<"Ok", "Quitting">>

\* C10 witness: main has sent E2, E2, E1, E1, all four were processed and
\* join has returned.
C10_Witness ==
    /\ joinpc = "returned"
    /\ LogEvents = DocScript

\* A trasnsit or respond call has panicked.
Faulted ==
    \/ \E k \in 1 .. Len(transitLog) : transitLog[k].fault
    \/ \E j \in 1 .. Len(notifyLog) : notifyLog[j].fault

\* C11: once trasnsit or respond has panicked the worker has stopped (the
\* panicking call is the last one made), join returns Err and returns Err
\* only then, a live sender can still call send, and every send made then
\* returns Err to its caller.
C11_FaultSurfacesAtJoin ==
    /\ [](Faulted =>
            /\ wpc = "panicked"
            /\ \A k \in 1 .. Len(transitLog) :
                transitLog[k].fault => k = Len(transitLog)
            /\ \A j \in 1 .. Len(notifyLog) :
                notifyLog[j].fault =>
                    /\ j = Len(notifyLog)
                    /\ notifyLog[j].item = transitLog[Len(transitLog)].item
            /\ \A p \in SenderIds : \A e \in Events :
                senders[p] = "alive" => ENABLED ChanSend(p, e))
    /\ [](joinpc = "returned" => (joinResult = <<"Err">> <=> Faulted))
    /\ [][\A p \in SenderIds : \A e \in Events :
            (Faulted /\ ChanSend(p, e)) => sendResult'[1] = "Err"]_vars

\* C11 witness: respond has panicked, join has returned Err and a later send
\* has returned Err.
C11_Witness ==
    /\ \E j \in 1 .. Len(notifyLog) : notifyLog[j].fault
    /\ joinResult = <<"Err">>
    /\ sendResult[1] = "Err"

\* C12: join has returned only when the worker thread has ended, no
\* trasnsit or respond call is made after join has returned, and under fair
\* scheduling a join that waits for an ended worker returns.
C12_JoinWaitsForWorker ==
    /\ [](joinpc = "returned" => WorkerExited /\ threadResult # <<"Running">>)
    /\ [][joinpc = "returned" =>
            (transitLog' = transitLog /\ notifyLog' = notifyLog)]_vars
    /\ ((joinpc = "pending" /\ WorkerExited) ~> (joinpc = "returned"))

\* C12 witness: join was called while the worker was still processing, and
\* has returned after two transitions.
C12_Witness ==
    /\ joinpc = "returned"
    /\ Len(transitLog) >= 2
    /\ wpc = "done"

\* C13: a worker that did not panic ends only from the arm `None => return
\* response` or from rx.recv() failing with the queue empty and every
\* sender dropped; it has not ended while a sender is alive and no
\* transition has returned None.
C13_WorkerExitsOnlyTwoWays ==
    /\ [](wpc = "done" => (Terminated \/ ~AnySender(senders)))
    /\ [][(wpc # "done" /\ wpc' = "done") =>
            \/ (wpc = "match" /\ cur.new = None /\ Terminated)
            \/ (wpc = "recv" /\ queue = <<>> /\ ~AnySender(senders))]_vars

\* C13 witness: the worker has ended on the closed channel after it
\* processed an event, no transition having returned None.
C13_Witness ==
    /\ wpc = "done"
    /\ ~Terminated
    /\ Len(transitLog) >= 1

\* The events of the trasnsit calls, in order.
LogItems == [i \in 1 .. Len(transitLog) |-> transitLog[i].item]

\* C14: the worker processes the events in the channel's order and skips
\* none; with every sender dropped, a queued event leaves the queue only to
\* be processed (or when a transition terminates the machine or panics);
\* and when the worker ends on the closed channel, with result None, every
\* event the channel took has been processed.
C14_QueueDrainsBeforeClosure ==
    /\ [](IsPrefix(LogItems, accepted))
    /\ []((wpc = "done" /\ ~Terminated) =>
            (LogItems = accepted /\ threadResult = <<"Ok", None>>))
    /\ [][(~AnySender(senders) /\ queue # <<>> /\ queue' # queue) =>
            \/ (wpc = "recv" /\ queue' = Tail(queue) /\ cur'.item = Head(queue))
            \/ (wpc' = "done" /\ Terminated')
            \/ (wpc' = "panicked")]_vars

\* C14 witness: the worker has ended on the closed channel with result None
\* after it processed all three events the channel took.
C14_Witness ==
    /\ wpc = "done"
    /\ ~Terminated
    /\ threadResult = <<"Ok", None>>
    /\ Len(accepted) >= 3
    /\ LogItems = accepted

\* A step of a caller: send, get_sender, a drop, join.
CallerStep ==
    \/ \E e \in Events : Send(e)
    \/ \E p \in SenderIds, e \in Events : CloneSend(p, e)
    \/ GetSender
    \/ \E p \in SenderIds : DropSender(p)
    \/ DropReactor
    \/ JoinCall
    \/ JoinReturn

\* C15: no step of a caller changes the worker's state or machine or makes
\* a trasnsit or respond call; the state changes only where the worker
\* initialises or commits it, the machine only where the worker constructs
\* it or calls trasnsit; and each step makes at most one call, trasnsit
\* from the worker's position after recv, respond from the one after
\* trasnsit.
C15_WorkerOwnsState ==
    [][/\ CallerStep =>
            UNCHANGED <<state, fsm, wpc, cur, transitLog, notifyLog>>
       /\ state' # state => (wpc \in {"constructed", "match"} /\ wpc' = "recv")
       /\ fsm' # fsm => wpc \in {"spawned", "transit"}
       /\ Len(transitLog') + Len(notifyLog')
            <= Len(transitLog) + Len(notifyLog) + 1
       /\ transitLog' # transitLog => wpc = "transit"
       /\ notifyLog' # notifyLog => wpc = "respond"]_vars

\* C15 witness: the machine's bookkeeping and the state have changed, and
\* the callers have sent, dropped a cloned sender and called join while the
\* worker is between two calls.
C15_Witness ==
    /\ F = "Counter"
    /\ fsm.calls = 1
    /\ state = "S2"
    /\ wpc = "transit"
    /\ joinpc = "pending"
    /\ \E p \in SenderIds \ {0} : senders[p] = "dropped"

\* C16: the Reactor exists, and takes events, before the worker has
\* constructed the machine or set the state; the machine is constructed
\* once, by the worker's first step; what is sent before the worker is
\* ready stays queued, and the events are processed in the channel's
\* order, the first from State::default().
C16_NewDoesNotWait ==
    /\ []((wpc \in {"spawned", "constructed"}) =>
            /\ queue = accepted
            /\ transitLog = <<>>
            /\ \A e \in Events : joinpc = "idle" => ENABLED ChanSend(0, e))
    /\ [](fsm.built <=> wpc # "spawned")
    /\ [][/\ fsm'.built # fsm.built => (wpc = "spawned" /\ fsm' = New(F))
          /\ wpc' = "spawned" => wpc = "spawned"]_vars
    /\ [](/\ IsPrefix(LogItems, accepted)
          /\ Len(transitLog) >= 1 => transitLog[1].old = DefaultState)

\* C16 witness: two events are queued while the worker has constructed the
\* machine and not yet set the state.
C16_Witness ==
    /\ wpc = "constructed"
    /\ state = "unset"
    /\ Len(queue) >= 2
    /\ sendResult = <<"Ok">>

\* C17: the Reactor's own sender is alive until join has returned or the
\* Reactor is dropped; so while join waits some sender is alive, the worker
\* has not ended on a closed channel, and a join that has returned followed
\* a transition that returned None or a panic.
C17_ReactorKeepsChannelOpen ==
    /\ (joinpc \in {"idle", "pending"}) =>
            /\ senders[0] = "alive"
            /\ WorkerExited => (Terminated \/ Faulted)
    /\ joinpc = "returned" => (Terminated \/ Faulted)

\* C17 witness: join waits, no cloned sender is alive, the queue is drained
\* and the worker waits in rx.recv() on the channel the Reactor keeps open.
C17_Witness ==
    /\ joinpc = "pending"
    /\ NoCloneAlive
    /\ wpc = "recv"
    /\ queue = <<>>
    /\ Len(transitLog) >= 1

\* C18: with the Reactor dropped without join, while a cloned sender is
\* alive and no transition has returned None (and none has panicked) the
\* worker has not ended and the channel takes events; and under fair
\* scheduling every event sent is processed, unless the machine terminates
\* or panics first.
C18_DroppedReactorKeepsWorker ==
    /\ []((joinpc = "dropped" /\ ~NoCloneAlive /\ ~Terminated /\ ~Faulted) =>
            (~WorkerExited /\ rxAlive))
    /\ ((joinpc = "dropped") ~> (AllDelivered \/ Terminated \/ Faulted))

\* C18 witness: the Reactor is dropped, a cloned sender is alive, and the
\* worker, still running, has processed the two events sent on it.
C18_Witness ==
    /\ joinpc = "dropped"
    /\ ~NoCloneAlive
    /\ ~WorkerExited
    /\ Len(transitLog) >= 2
    /\ \A i \in 1 .. Len(transitLog) : transitLog[i].item.src # 0
    /\ AllDelivered

\* The machine run alone, one event after the other, on the events `acc`
\* from index i: the trasnsit calls, the respond calls, and what join gets.
RECURSIVE SequentialRun(_, _, _, _, _, _, _)
SequentialRun(Fm, acc, i, st, m, t, n) ==
    IF i > Len(acc) THEN [t |-> t, n |-> n, res |-> <<"NotReturned">>]
    ELSE LET out == trasnsit(Fm, m, st, acc[i].ev)
             call == [item |-> acc[i], old |-> st, new |-> out.new,
                      resp |-> out.resp, fault |-> out.fault]
             t2 == Append(t, call)
             n2 == IF out.fault \/ out.resp = None THEN n
                   ELSE Append(n, [call EXCEPT !.fault = respondFaults(Fm, out.resp)])
         IN  IF out.fault \/ (out.resp # None /\ respondFaults(Fm, out.resp))
             THEN [t |-> t2, n |-> n2, res |-> <<"Err">>]
             ELSE IF out.new = None
             THEN [t |-> t2, n |-> n2, res |-> <<"Ok", out.resp>>]
             ELSE SequentialRun(Fm, acc, i + 1, out.new,
                                trasnsitSelf(Fm, m, acc[i].ev), t2, n2)

\* C19: the trasnsit calls, the respond calls with their arguments, and
\* join's result are those of the machine run alone on the sequence of
\* events the channel took: they are a function of that sequence, so two
\* Reactors whose channels take the same sequence agree on them, however
\* the sends and the worker's steps interleave.
C19_DeterminedBySerializedEvents ==
    LET run == SequentialRun(F, accepted, 1, DefaultState, New(F), <<>>, <<>>)
    IN  /\ IsPrefix(transitLog, run.t)
        /\ IsPrefix(notifyLog, run.n)
        /\ joinpc = "returned" =>
            /\ transitLog = run.t
            /\ notifyLog = run.n
            /\ joinResult = run.res

\* C19 witness: join has returned after two respond calls, the channel
\* having taken events of two senders.
C19_Witness ==
    /\ joinpc = "returned"
    /\ Len(notifyLog) >= 2
    /\ \E i \in 1 .. Len(accepted) : accepted[i].src # accepted[1].src

=============================================================================
